---- MODULE Spec2Model ----
(***************************************************************************)
(* A model of mio-pipe: new_pipe (the pipe2, pipe+fcntl and CreatePipe     *)
(* paths), the Sender and Receiver endpoints (write, read, drop,           *)
(* as_raw_fd, into_raw_fd, from_raw_fd, register, reregister, deregister)  *)
(* and the parts of the operating system the endpoints forward to: the     *)
(* descriptor table, the pipe buffer and the readiness registry.           *)
(***************************************************************************)
EXTENDS Integers, Sequences, FiniteSets, TLC

\* ------------------------------------------------------------------ bounds
\* Capacity of the kernel pipe buffer, in bytes.
PipeCap == 12
\* PIPE_BUF: writes of at most this many bytes are all-or-nothing.
PipeBufAtomic == 2
\* Number of write calls that transfer bytes in one behaviour.
MaxWrites == 3
\* Number of descriptors that can be open besides the pipe's two.
MaxDups == 1

\* ------------------------------------------------------- program constants
PIPE_RECV == 0
PIPE_SEND == 1
NoFd == -1

\* MSG of the first documentation example: b"Hello world".
MSG == <<72, 101, 108, 108, 111, 32, 119, 111, 114, 108, 100>>

\* The byte sequences handed to write, and the buffer lengths handed to read.
Bufs == {<<1>>, <<2, 3>>, MSG}
ReadLens == {0, 1, Len(MSG)}
\* The same for the behaviours that exercise the registry.
RegBufs == {MSG}
RegLens == {Len(MSG)}

Kinds == {"Sender", "Receiver"}
Ends == {"r", "w"}
UnixPlatforms == {"pipe2", "fcntl"}
Platforms == UnixPlatforms \cup {"windows"}
FDs == 1..(2 + MaxDups)
Interests == {{"readable"}, {"writable"}, {"readable", "writable"}}

\* The pipe end an endpoint kind wraps, and the endpoint kind of a pipe end.
End(k) == IF k = "Sender" THEN "w" ELSE "r"
Peer(e) == IF e = "r" THEN "w" ELSE "r"
Token(k) == IF k = "Sender" THEN PIPE_SEND ELSE PIPE_RECV

\* The traits the public types implement, and those the sys types implement.
PublicImpls ==
    [Sender |-> {"Source", "Write", "AsRawFd", "IntoRawFd"},
     Receiver |-> {"Source", "Read", "AsRawFd", "IntoRawFd"}]
SysImpls ==
    [Sender |-> {"Source", "Write", "FromRawFd", "AsRawFd", "IntoRawFd"},
     Receiver |-> {"Source", "Read", "FromRawFd", "AsRawFd", "IntoRawFd"}]

VARIABLES
    platform,   \* the build's target family
    fdt,        \* descriptor table: fd -> [open, end, cloexec]
    nonblock,   \* O_NONBLOCK of the open file description of each pipe end
    buf,        \* the kernel pipe buffer
    life,       \* per endpoint kind: "none", "alive", "dropped", "raw"
    ep,         \* per endpoint kind: the descriptor its File wraps
    raw,        \* descriptors the caller owns (from into_raw_fd or dup)
    reg,        \* registry: per pipe end, the registration
    ret,        \* the last call and what it returned
    blocked,    \* per endpoint kind: the call its thread is suspended in
    pc,         \* new_pipe: "idle", or "fcntl" inside the fallback loop
    step,       \* new_pipe: index of the next fcntl call (0..3)
    fds,        \* new_pipe: the local array fds
    trace,      \* new_pipe: the system calls of the current call
    openBefore, \* new_pipe: open descriptors when the call started
    written,    \* every byte a write call transferred, in order
    readlog,    \* every byte a read call returned, in order
    nwrites,    \* write calls that transferred bytes
    ebadf       \* a system call was made on a descriptor that is not open

vars == <<platform, fdt, nonblock, buf, life, ep, raw, reg, ret, blocked, pc,
          step, fds, trace, openBefore, written, readlog, nwrites, ebadf>>

\* ------------------------------------------------------------ OS helpers
Closed == [open |-> FALSE, end |-> "-", cloexec |-> FALSE]
NoReg == [fd |-> NoFd, token |-> NoFd, interests |-> {}]
NoCall == [op |-> "none", n |-> 0, data |-> <<>>]
\* A call and what it returned: the result, a number (a count or a descriptor),
\* bytes, the events of a poll, the descriptors an exec'd child inherited.
RetFull(op, kind, res, n, data, events, inherited) ==
    [op |-> op, kind |-> kind, res |-> res, n |-> n, data |-> data,
     events |-> events, inherited |-> inherited]
Ret(op, kind, res, n, data) == RetFull(op, kind, res, n, data, {}, {})

IsOpen(t, fd) == fd \in FDs /\ t[fd].open
OpenFdsOf(t, e) == {fd \in FDs : t[fd].open /\ t[fd].end = e}
OpenFds(e) == OpenFdsOf(fdt, e)
AllOpen(t) == {fd \in FDs : t[fd].open}
FreeFds(t) == {fd \in FDs : ~t[fd].open}
LowestFree(t) == CHOOSE fd \in FreeFds(t) : \A g \in FreeFds(t) : fd <= g

Take(s, n) == SubSeq(s, 1, n)
Skip(s, n) == SubSeq(s, n + 1, Len(s))
Min(a, b) == IF a < b THEN a ELSE b

\* close(2): the descriptor table after closing fd.
FdtAfterClose(t, fd) == IF IsOpen(t, fd) THEN [t EXCEPT ![fd] = Closed] ELSE t
\* Mutant: the registry drops the registration of a pipe end when any
\* descriptor of it is closed.
RegAfterCloseAny(t, r, fd) ==
    IF ~IsOpen(t, fd) THEN r
    ELSE [e \in Ends |-> IF t[fd].end = e THEN NoReg ELSE r[e]]
\* close(2): the registry drops a registration when the last descriptor of
\* its open file description is closed.
RegAfterClose(t, r, fd) ==
    IF ~IsOpen(t, fd) THEN r
    ELSE [e \in Ends |->
            IF t[fd].end = e /\ OpenFdsOf(t, e) = {fd} THEN NoReg ELSE r[e]]
\* close(2) on a descriptor that is not open is EBADF.
BadAfterClose(t, b, fd) == b \/ ~IsOpen(t, fd)


\* ------------------------------------------------------------------ Init
InitOn(ps) ==
    /\ platform \in ps
    /\ fdt = [fd \in FDs |-> Closed]
    /\ nonblock = [e \in Ends |-> FALSE]
    /\ buf = <<>>
    /\ life = [k \in Kinds |-> "none"]
    /\ ep = [k \in Kinds |-> NoFd]
    /\ raw = {}
    /\ reg = [e \in Ends |-> NoReg]
    /\ ret = Ret("init", "-", "Ok", 0, <<>>)
    /\ blocked = [k \in Kinds |-> NoCall]
    /\ pc = "idle"
    /\ step = 0
    /\ fds = <<NoFd, NoFd>>
    /\ trace = <<>>
    /\ openBefore = 0
    /\ written = <<>>
    /\ readlog = <<>>
    /\ nwrites = 0
    /\ ebadf = FALSE

\* The supported (Unix) targets.
Init == InitOn(UnixPlatforms)
\* Every target the source has a new_pipe for.
InitAll == InitOn(Platforms)

\* --------------------------------------------------------------- new_pipe
\* One system call of new_pipe: its name, its descriptor and its result.
Call(name, fd, result) == <<name, fd, result>>

\* The two descriptors a pipe call returns: fds[0] reads, fds[1] writes.
NewFds(t) ==
    LET f0 == LowestFree(t)
        f1 == LowestFree([t EXCEPT ![f0].open = TRUE])
    IN <<f0, f1>>
FdtAfterPipe(t, f, cloexec) ==
    [t EXCEPT ![f[1]] = [open |-> TRUE, end |-> "r", cloexec |-> cloexec],
              ![f[2]] = [open |-> TRUE, end |-> "w", cloexec |-> cloexec]]

\* The flags pipe2 is called with: O_CLOEXEC | O_NONBLOCK.
Pipe2Flags == [cloexec |-> TRUE, nonblock |-> TRUE]

\* Mutant: the two descriptors wrapped the other way round.
WrapFdsSwapped(f) == [Receiver |-> f[2], Sender |-> f[1]]
\* The endpoints new_pipe builds: the Receiver on fds[0], the Sender on fds[1].
WrapFds(f) == [Receiver |-> f[1], Sender |-> f[2]]

CanCreate ==
    /\ pc = "idle"
    /\ \A k \in Kinds : life[k] = "none"
    /\ raw = {}

NewPipeFails(e, log) ==
    /\ ret' = Ret("new_pipe", "-", e, 0, <<>>)
    /\ trace' = log
    /\ openBefore' = Cardinality(AllOpen(fdt))
    /\ fds' = <<NoFd, NoFd>>
    /\ UNCHANGED <<platform, fdt, nonblock, buf, life, ep, raw, reg,
                   blocked, pc, step, written, readlog, nwrites, ebadf>>

NewPipeOk(t, f, log) ==
    /\ fdt' = t
    /\ ep' = WrapFds(f)
    /\ life' = [k \in Kinds |-> "alive"]
    /\ fds' = f
    /\ trace' = log
    /\ pc' = "idle"
    /\ ret' = Ret("new_pipe", "-", "Ok", 0, <<>>)
    /\ buf' = <<>>
    /\ written' = <<>>
    /\ readlog' = <<>>

\* unix.rs, the pipe2 targets: one system call creates and configures.
Pipe2 ==
    /\ platform = "pipe2"
    /\ CanCreate
    /\ \E ok \in BOOLEAN :
         IF ~ok THEN NewPipeFails("EMFILE", <<Call("pipe2", NoFd, "EMFILE")>>)
         ELSE LET f == NewFds(fdt) IN
              /\ NewPipeOk(FdtAfterPipe(fdt, f, Pipe2Flags.cloexec), f,
                           <<Call("pipe2", NoFd, "ok")>>)
              /\ nonblock' = [e \in Ends |-> Pipe2Flags.nonblock]
              /\ openBefore' = Cardinality(AllOpen(fdt))
              /\ UNCHANGED <<platform, raw, reg, blocked, step, nwrites, ebadf>>

\* unix.rs, the targets without pipe2: the plain pipe call.
PipeCall ==
    /\ platform = "fcntl"
    /\ CanCreate
    /\ \E ok \in BOOLEAN :
         IF ~ok THEN NewPipeFails("EMFILE", <<Call("pipe", NoFd, "EMFILE")>>)
         ELSE LET f == NewFds(fdt) IN
              /\ fdt' = FdtAfterPipe(fdt, f, FALSE)
              /\ nonblock' = [e \in Ends |-> FALSE]
              /\ fds' = f
              /\ pc' = "fcntl"
              /\ step' = 0
              /\ trace' = <<Call("pipe", NoFd, "ok")>>
              /\ openBefore' = Cardinality(AllOpen(fdt))
              /\ buf' = <<>>
              /\ ret' = Ret("new_pipe", "-", "InProgress", 0, <<>>)
              /\ UNCHANGED <<platform, life, ep, raw, reg, blocked, written,
                             readlog, nwrites, ebadf>>

\* The loop `for fd in &fds`: call 0 and 1 configure fds[0], 2 and 3 fds[1];
\* the even call is F_SETFL O_NONBLOCK, the odd one F_SETFD FD_CLOEXEC.
StepFd(f, i) == f[(i \div 2) + 1]
StepName(i) == IF i % 2 = 0 THEN "fcntl_setfl" ELSE "fcntl_setfd"
LastStep == 3

\* The descriptors the failure path closes, in order.
CleanupFds(f) == <<f[1], f[2]>>
\* Mutant: last_os_error() taken after the closes.
FallbackErrAfterClose(failed, afterClose) == afterClose
\* The error the failure path returns: last_os_error() taken before the closes.
FallbackErr(failed, afterClose) == failed

RECURSIVE CloseAll(_, _)
CloseAll(t, s) == IF s = <<>> THEN t ELSE CloseAll(FdtAfterClose(t, Head(s)), Tail(s))
RECURSIVE BadAll(_, _, _)
BadAll(t, b, s) ==
    IF s = <<>> THEN b
    ELSE BadAll(FdtAfterClose(t, Head(s)), BadAfterClose(t, b, Head(s)), Tail(s))
\* The close calls with their results, and the thread's OS error after them.
CloseCalls(s, results) == [i \in 1..Len(s) |-> Call("close", s[i], results[i])]
RECURSIVE ErrnoAfter(_, _)
ErrnoAfter(e, results) ==
    IF results = <<>> THEN e
    ELSE ErrnoAfter(IF Head(results) = "ok" THEN e ELSE Head(results), Tail(results))

FcntlStep ==
    /\ pc = "fcntl"
    /\ \E ok \in BOOLEAN, e \in {"EBADF", "EINVAL"} :
         LET fd == StepFd(fds, step) IN
         IF ~ok
         THEN \* the call fails: close the descriptors, return its error
              \E results \in [1..Len(CleanupFds(fds)) -> {"ok", "EIO"}] :
                /\ fdt' = CloseAll(fdt, CleanupFds(fds))
                /\ ebadf' = BadAll(fdt, ebadf, CleanupFds(fds))
                /\ ret' = Ret("new_pipe", "-", FallbackErr(e, ErrnoAfter(e, results)),
                              0, <<>>)
                /\ trace' = Append(trace, Call(StepName(step), fd, e))
                              \o CloseCalls(CleanupFds(fds), results)
                /\ pc' = "idle"
                /\ nonblock' = [x \in Ends |-> FALSE]
                /\ UNCHANGED <<platform, buf, life, ep, raw, reg, blocked, step,
                               fds, openBefore, written, readlog, nwrites>>
         ELSE LET t == IF step % 2 = 1 THEN [fdt EXCEPT ![fd].cloexec = TRUE] ELSE fdt
                  nb == IF step % 2 = 0
                        THEN [nonblock EXCEPT ![fdt[fd].end] = TRUE] ELSE nonblock
                  log == Append(trace, Call(StepName(step), fd, "ok"))
              IN
              /\ nonblock' = nb
              /\ IF step = LastStep
                 THEN /\ NewPipeOk(t, fds, log)
                      /\ UNCHANGED step
                 ELSE /\ fdt' = t
                      /\ step' = step + 1
                      /\ trace' = log
                      /\ UNCHANGED <<buf, life, ep, ret, pc, fds, written, readlog>>
              /\ UNCHANGED <<platform, raw, reg, blocked, openBefore, nwrites,
                             ebadf>>

\* windows.rs: CreatePipe with no security attributes (handles not inherited);
\* nothing sets the handles non-blocking.
CreatePipe ==
    /\ platform = "windows"
    /\ CanCreate
    /\ \E ok \in BOOLEAN :
         IF ~ok THEN NewPipeFails("EMFILE", <<Call("CreatePipe", NoFd, "EMFILE")>>)
         ELSE LET f == NewFds(fdt) IN
              /\ NewPipeOk(FdtAfterPipe(fdt, f, TRUE), f,
                           <<Call("CreatePipe", NoFd, "ok")>>)
              /\ nonblock' = [e \in Ends |-> FALSE]
              /\ openBefore' = Cardinality(AllOpen(fdt))
              /\ UNCHANGED <<platform, raw, reg, blocked, step, nwrites, ebadf>>

\* A concurrent fork and exec: the child keeps every open descriptor that is
\* not close-on-exec.
Inherited(t) == {fd \in AllOpen(t) : ~t[fd].cloexec}
ForkExec ==
    /\ ret' = RetFull("fork_exec", "-", "Ok", 0, <<>>, {}, Inherited(fdt))
    /\ UNCHANGED <<platform, fdt, nonblock, buf, life, ep, raw, reg, blocked, pc,
                   step, fds, trace, openBefore, written, readlog, nwrites, ebadf>>

\* ------------------------------------------------------- write and read
\* What the call returns when it cannot proceed: the would-block error on a
\* non-blocking description; on a blocking one the thread is suspended.
CannotProceed(nb) == IF nb THEN "WouldBlock" ELSE "Suspended"

\* write(2) of b on descriptor fd: the result and the bytes transferred.
WriteOutcome(t, nb, buffer, fd, b) ==
    LET space == PipeCap - Len(buffer) IN
    IF ~IsOpen(t, fd) \/ t[fd].end # "w" THEN [res |-> "EBADF", n |-> 0]
    ELSE IF OpenFdsOf(t, "r") = {} THEN [res |-> "BrokenPipe", n |-> 0]
    ELSE IF Len(b) <= space THEN [res |-> "Ok", n |-> Len(b)]
    ELSE IF Len(b) <= PipeBufAtomic \/ space = 0 \/ ~nb["w"]
         THEN [res |-> CannotProceed(nb["w"]), n |-> 0]
    ELSE [res |-> "Ok", n |-> space]

\* read(2) of up to n bytes on descriptor fd: the result and the bytes.
ReadOutcome(t, nb, buffer, fd, n) ==
    IF ~IsOpen(t, fd) \/ t[fd].end # "r" THEN [res |-> "EBADF", data |-> <<>>]
    ELSE IF n = 0 THEN [res |-> "Ok", data |-> <<>>]
    ELSE IF buffer # <<>> THEN [res |-> "Ok", data |-> Take(buffer, Min(n, Len(buffer)))]
    ELSE IF OpenFdsOf(t, "w") = {} THEN [res |-> "Ok", data |-> <<>>]
    ELSE [res |-> CannotProceed(nb["r"]), data |-> <<>>]

Usable(k) == pc = "idle" /\ life[k] = "alive" /\ blocked[k] = NoCall

\* Mutant: write reports the broken pipe as would-block.
SenderWriteHidesBrokenPipe(fd, b) ==
    LET o == WriteOutcome(fdt, nonblock, buf, fd, b) IN
    IF o.res = "BrokenPipe" THEN [res |-> "WouldBlock", n |-> 0] ELSE o
\* Mutant: read reports a read of zero bytes as would-block.
ReceiverReadZeroAsWouldBlock(fd, n) ==
    LET o == ReadOutcome(fdt, nonblock, buf, fd, n) IN
    IF o.res = "Ok" /\ o.data = <<>> /\ n > 0
    THEN [res |-> "WouldBlock", data |-> <<>>] ELSE o
\* impl Write for Sender: write forwards to the File.
SenderWrite(fd, b) == WriteOutcome(fdt, nonblock, buf, fd, b)
\* impl Read for Receiver: read forwards to the File.
ReceiverRead(fd, n) == ReadOutcome(fdt, nonblock, buf, fd, n)

DoWrite(b, o) ==
    \* the bound: the logs grow only while the Receiver can still read
    /\ (o.n > 0 /\ life["Receiver"] = "alive") => nwrites < MaxWrites
    /\ buf' = buf \o Take(b, o.n)
    /\ written' = written \o Take(b, o.n)
    /\ nwrites' = IF o.n > 0 THEN nwrites + 1 ELSE nwrites
    /\ ret' = Ret("write", "Sender", o.res, o.n, b)
    /\ blocked' = [blocked EXCEPT !["Sender"] =
                     IF o.res = "Suspended"
                     THEN [op |-> "write", n |-> 0, data |-> b] ELSE NoCall]
    /\ ebadf' = (ebadf \/ o.res = "EBADF")
    /\ UNCHANGED <<platform, fdt, nonblock, life, ep, raw, reg, pc, step,
                   fds, trace, openBefore, readlog>>

DoRead(n, o) ==
    /\ buf' = Skip(buf, Len(o.data))
    /\ readlog' = readlog \o o.data
    /\ ret' = Ret("read", "Receiver", o.res, n, o.data)
    /\ blocked' = [blocked EXCEPT !["Receiver"] =
                     IF o.res = "Suspended"
                     THEN [op |-> "read", n |-> n, data |-> <<>>] ELSE NoCall]
    /\ ebadf' = (ebadf \/ o.res = "EBADF")
    /\ UNCHANGED <<platform, fdt, nonblock, life, ep, raw, reg, pc, step,
                   fds, trace, openBefore, written, nwrites>>

Write(b) == Usable("Sender") /\ DoWrite(b, SenderWrite(ep["Sender"], b))
Read(n) == Usable("Receiver") /\ DoRead(n, ReceiverRead(ep["Receiver"], n))

\* A suspended call returns once the pipe lets it proceed.
WakeWrite ==
    /\ blocked["Sender"].op = "write"
    /\ LET o == SenderWrite(ep["Sender"], blocked["Sender"].data) IN
       o.res # "Suspended" /\ DoWrite(blocked["Sender"].data, o)
WakeRead ==
    /\ blocked["Receiver"].op = "read"
    /\ LET o == ReceiverRead(ep["Receiver"], blocked["Receiver"].n) IN
       o.res # "Suspended" /\ DoRead(blocked["Receiver"].n, o)

\* ------------------------------------------------- ownership of the File
\* Dropping the endpoint drops its File, which closes the descriptor.
FdtAfterDrop(t, fd) == FdtAfterClose(t, fd)
\* Mutant: into_raw_fd returns the descriptor and lets the File close it.
FdtIntoRawCloses(t, fd) == FdtAfterClose(t, fd)
\* into_raw_fd gives the descriptor away and closes nothing.
FdtAfterIntoRaw(t, fd) == t

Drop(k) ==
    /\ Usable(k)
    /\ fdt' = FdtAfterDrop(fdt, ep[k])
    /\ reg' = RegAfterClose(fdt, reg, ep[k])
    /\ ebadf' = BadAfterClose(fdt, ebadf, ep[k])
    /\ life' = [life EXCEPT ![k] = "dropped"]
    /\ ep' = [ep EXCEPT ![k] = NoFd]
    /\ ret' = Ret("drop", k, "Ok", ep[k], <<>>)
    /\ UNCHANGED <<platform, nonblock, buf, raw, blocked, pc, step, fds,
                   trace, openBefore, written, readlog, nwrites>>

IntoRawFd(k) ==
    /\ Usable(k)
    /\ "IntoRawFd" \in PublicImpls[k]
    /\ fdt' = FdtAfterIntoRaw(fdt, ep[k])
    /\ raw' = raw \cup {ep[k]}
    /\ life' = [life EXCEPT ![k] = "raw"]
    /\ ep' = [ep EXCEPT ![k] = NoFd]
    /\ ret' = Ret("into_raw_fd", k, "Ok", ep[k], <<>>)
    /\ UNCHANGED <<platform, nonblock, buf, reg, blocked, pc, step, fds,
                   trace, openBefore, written, readlog, nwrites, ebadf>>

AsRawFd(k) ==
    /\ Usable(k)
    /\ "AsRawFd" \in PublicImpls[k]
    /\ ret' = Ret("as_raw_fd", k, "Ok", ep[k], <<>>)
    /\ UNCHANGED <<platform, fdt, nonblock, buf, life, ep, raw, reg,
                   blocked, pc, step, fds, trace, openBefore, written,
                   readlog, nwrites, ebadf>>

\* from_raw_fd wraps a descriptor the caller owns; only the types that
\* implement FromRawFd have it.
FromRawFd(impls, k, fd) ==
    /\ "FromRawFd" \in impls[k]
    /\ pc = "idle"
    /\ life[k] = "raw"
    /\ fd \in raw
    /\ IsOpen(fdt, fd) /\ fdt[fd].end = End(k)
    /\ ep' = [ep EXCEPT ![k] = fd]
    /\ life' = [life EXCEPT ![k] = "alive"]
    /\ raw' = raw \ {fd}
    /\ ret' = Ret("from_raw_fd", k, "Ok", fd, <<>>)
    /\ UNCHANGED <<platform, fdt, nonblock, buf, reg, blocked, pc, step,
                   fds, trace, openBefore, written, readlog, nwrites, ebadf>>

\* The caller duplicates the descriptor as_raw_fd showed it: dup(2) returns the
\* lowest free descriptor, on the same open file description, not close-on-exec.
Dup(k) ==
    /\ Usable(k)
    /\ FreeFds(fdt) # {}
    /\ LET new == LowestFree(fdt) IN
       /\ fdt' = [fdt EXCEPT ![new] = [open |-> TRUE, end |-> End(k), cloexec |-> FALSE]]
       /\ raw' = raw \cup {new}
       /\ ret' = Ret("dup", k, "Ok", new, <<>>)
    /\ UNCHANGED <<platform, nonblock, buf, life, ep, reg, blocked, pc,
                   step, fds, trace, openBefore, written, readlog, nwrites,
                   ebadf>>

\* The caller closes a descriptor it owns.
CloseRaw(fd) ==
    /\ fd \in raw
    /\ fdt' = FdtAfterClose(fdt, fd)
    /\ reg' = RegAfterClose(fdt, reg, fd)
    /\ ebadf' = BadAfterClose(fdt, ebadf, fd)
    /\ raw' = raw \ {fd}
    /\ ret' = Ret("close", "-", "Ok", fd, <<>>)
    /\ UNCHANGED <<platform, nonblock, buf, life, ep, blocked, pc, step,
                   fds, trace, openBefore, written, readlog, nwrites>>


\* ------------------------------------------------------------- registry
\* SourceFd(&fd).register: a descriptor can be registered once.
RegisterOutcome(t, r, fd, k, interests) ==
    IF ~IsOpen(t, fd) THEN [res |-> "EBADF", reg |-> r]
    ELSE IF r[End(k)] # NoReg THEN [res |-> "EEXIST", reg |-> r]
    ELSE [res |-> "Ok",
          reg |-> [r EXCEPT ![End(k)] =
                     [fd |-> fd, token |-> Token(k), interests |-> interests]]]

\* SourceFd(&fd).reregister: replaces the registration of a registered descriptor.
ReregisterOutcome(t, r, fd, k, interests) ==
    IF ~IsOpen(t, fd) THEN [res |-> "EBADF", reg |-> r]
    ELSE IF r[End(k)].fd # fd THEN [res |-> "ENOENT", reg |-> r]
    ELSE [res |-> "Ok",
          reg |-> [r EXCEPT ![End(k)] =
                     [fd |-> fd, token |-> Token(k), interests |-> interests]]]

\* SourceFd(&fd).deregister: removes the registration of a registered descriptor.
DeregisterOutcome(t, r, fd, k) ==
    IF ~IsOpen(t, fd) THEN [res |-> "EBADF", reg |-> r]
    ELSE IF r[End(k)].fd # fd THEN [res |-> "ENOENT", reg |-> r]
    ELSE [res |-> "Ok", reg |-> [r EXCEPT ![End(k)] = NoReg]]

SourceCall(op, k, o) ==
    /\ Usable(k)
    /\ "Source" \in PublicImpls[k]
    /\ reg' = o.reg
    /\ ret' = Ret(op, k, o.res, ep[k], <<>>)
    /\ ebadf' = (ebadf \/ o.res = "EBADF")
    /\ UNCHANGED <<platform, fdt, nonblock, buf, life, ep, raw, blocked, pc,
                   step, fds, trace, openBefore, written, readlog, nwrites>>

Register(k, i) == SourceCall("register", k, RegisterOutcome(fdt, reg, ep[k], k, i))
Reregister(k, i) == SourceCall("reregister", k, ReregisterOutcome(fdt, reg, ep[k], k, i))
Deregister(k) == SourceCall("deregister", k, DeregisterOutcome(fdt, reg, ep[k], k))

Event(token, readable, writable, error, rclosed, wclosed) ==
    [token |-> token, readable |-> readable, writable |-> writable,
     error |-> error, read_closed |-> rclosed, write_closed |-> wclosed]

\* "Due to platform differences": when the peer is gone a platform sets the
\* error flag, the closed flag, or both.
ClosedFlags ==
    {f \in [error : BOOLEAN, closed : BOOLEAN] : f.error \/ f.closed}

\* Mutant: a poll reports readiness only, never that the peer is gone.
EventsForReadinessOnly(t, r, buffer, e) ==
    LET g == r[e]
        ready == IF e = "r" THEN "readable" \in g.interests /\ buffer # <<>>
                 ELSE "writable" \in g.interests /\ Len(buffer) < PipeCap
    IN IF g # NoReg /\ ready
       THEN {{Event(g.token, e = "r", e = "w", FALSE, FALSE, FALSE)}}
       ELSE {{}}
\* The event sets a poll can report for the registration of pipe end e.
EventsFor(t, r, buffer, e) ==
    LET g == r[e]
        peerGone == OpenFdsOf(t, Peer(e)) = {}
        wants == IF e = "r" THEN "readable" \in g.interests
                 ELSE "writable" \in g.interests
        ready == IF e = "r" THEN wants /\ buffer # <<>>
                 ELSE wants /\ Len(buffer) < PipeCap
    IN
    IF g = NoReg THEN {{}}
    ELSE IF peerGone
    THEN {{Event(g.token, e = "r" /\ ready, e = "w" /\ ready, f.error,
                 e = "r" /\ f.closed, e = "w" /\ f.closed)} : f \in ClosedFlags}
         \cup (IF wants THEN {} ELSE {{}})
    ELSE IF ready
    THEN {{Event(g.token, e = "r", e = "w", FALSE, FALSE, FALSE)}}
    ELSE {{}}

PollResults(t, r, buffer) ==
    {a \cup b : a \in EventsFor(t, r, buffer, "r"), b \in EventsFor(t, r, buffer, "w")}

Poll ==
    /\ pc = "idle"
    /\ \E evs \in PollResults(fdt, reg, buf) :
         ret' = RetFull("poll", "-", "Ok", Cardinality(evs), <<>>, evs, {})
    /\ UNCHANGED <<platform, fdt, nonblock, buf, life, ep, raw, reg, blocked, pc,
                   step, fds, trace, openBefore, written, readlog, nwrites, ebadf>>

\* ------------------------------------------------------------------ Next
Create == Pipe2 \/ PipeCall \/ FcntlStep

\* The caller's steps on the endpoints and on the descriptors it owns.
Lifecycle ==
    \/ \E k \in Kinds : Drop(k)
    \/ \E k \in Kinds : IntoRawFd(k)
    \/ \E k \in Kinds : AsRawFd(k)
    \/ \E k \in Kinds : Dup(k)
    \/ \E fd \in FDs : CloseRaw(fd)

\* Creation, the byte stream and the end of the endpoints.
Next ==
    \/ Create
    \/ \E b \in Bufs : Write(b)
    \/ \E n \in ReadLens : Read(n)
    \/ \E k \in Kinds : Drop(k)

\* Creation, ownership and the registry, on transfers of MSG.
NextReg ==
    \/ Create
    \/ \E b \in RegBufs : Write(b)
    \/ \E n \in RegLens : Read(n)
    \/ Lifecycle
    \/ \E k \in Kinds, i \in Interests : Register(k, i)
    \/ \E k \in Kinds, i \in Interests : Reregister(k, i)
    \/ \E k \in Kinds : Deregister(k)
    \/ Poll

\* Every target, with the calls a blocking handle suspends and a concurrent
\* fork and exec.
NextAll ==
    \/ Next
    \/ CreatePipe
    \/ WakeWrite
    \/ WakeRead
    \/ ForkExec

Spec == Init /\ [][Next]_vars
SpecReg == Init /\ [][NextReg]_vars
SpecAll == InitAll /\ [][NextAll]_vars
\* The caller keeps writing.
SpecFair == SpecReg /\ WF_vars(\E b \in RegBufs : Write(b))


\* ================================================================ claims
Alive(k) == life[k] = "alive"
\* The buffer was empty when the last write, or the last read, was called.
EmptyBeforeWrite == Len(buf) = ret.n
EmptyBeforeRead == buf = <<>> /\ ret.data = <<>>
FullBeforeWrite == Len(buf) = PipeCap /\ ret.n = 0

\* C1: the pipe is a FIFO byte stream. The bytes written are, in order, the
\* bytes read followed by the bytes still buffered; a write of B (no longer
\* than the capacity) on an empty pipe takes all of B; a read returns the
\* first min(n, buffered) bytes; so writing MSG and reading into an 11-byte
\* buffer returns 11 and MSG.
C1_WriteThenRead ==
    /\ written = readlog \o buf
    /\ (ret.op = "write" /\ Alive("Receiver") /\ EmptyBeforeWrite
          /\ Len(ret.data) <= PipeCap)
         => ret.res = "Ok" /\ ret.n = Len(ret.data) /\ buf = ret.data
    /\ (ret.op = "read" /\ ret.res = "Ok")
         => /\ Len(ret.data) <= ret.n
            /\ Len(ret.data) = ret.n \/ buf = <<>>
            /\ Len(readlog) >= Len(ret.data)
            /\ ret.data = Skip(readlog, Len(readlog) - Len(ret.data))
    /\ (ret.op = "read" /\ ret.n = Len(MSG) /\ written = MSG /\ readlog = ret.data)
         => ret.res = "Ok" /\ Len(ret.data) = Len(MSG) /\ ret.data = MSG

C1_Witness ==
    /\ ret.op = "read" /\ ret.res = "Ok" /\ ret.n = Len(MSG)
    /\ written = MSG /\ ret.data = MSG /\ readlog = MSG

\* C4: a read on an empty pipe whose Sender is alive, and a write on a full
\* pipe whose Receiver is alive, return the would-block error and leave the
\* pipe as it was; no call suspends its thread.
C4_NeverSuspends ==
    /\ (ret.op = "read" /\ ret.n > 0 /\ Alive("Sender") /\ EmptyBeforeRead)
         => ret.res = "WouldBlock"
    /\ (ret.op = "write" /\ Alive("Receiver") /\ FullBeforeWrite)
         => ret.res = "WouldBlock"
    /\ ret.res # "Suspended"
    /\ \A k \in Kinds : blocked[k] = NoCall

\* C5: no state has an open descriptor of the pipe (one new_pipe is
\* configuring, or one an endpoint wraps) that is not both non-blocking and
\* close-on-exec, and no exec'd child inherits one.
C5_AtomicConfig ==
    /\ \A fd \in AllOpen(fdt) \ raw : fdt[fd].cloexec /\ nonblock[fdt[fd].end]
    /\ ret.op = "fork_exec" => ret.inherited \subseteq raw

FailedCalls == {i \in 1..Len(trace) : trace[i][1] # "close" /\ trace[i][3] # "ok"}
CloseCallsOf(fd) == {i \in 1..Len(trace) : trace[i][1] = "close" /\ trace[i][2] = fd}
NewPipeFailed == ret.op = "new_pipe" /\ ret.res \notin {"Ok", "InProgress"}
\* C10: a failed new_pipe leaves as many descriptors open as before it and no
\* endpoint; on the fallback path the two descriptors are each closed once,
\* the error returned is the one of the call that failed, not one of a close;
\* no system call is made twice.
C10_FailureCleansUp ==
    /\ \A i, j \in 1..Len(trace) :
         (trace[i][1] = trace[j][1] /\ trace[i][2] = trace[j][2]) => i = j
    /\ NewPipeFailed =>
         /\ Cardinality(AllOpen(fdt)) = openBefore
         /\ \A k \in Kinds : life[k] = "none"
         /\ ~ebadf
         /\ Cardinality(FailedCalls) = 1
         /\ \A i \in FailedCalls :
              /\ ret.res = trace[i][3]
              /\ \A j \in 1..Len(trace) : j > i => trace[j][1] = "close"
              /\ IF trace[i][1] \in {"pipe", "pipe2"}
                 THEN Len(trace) = 1 /\ fds = <<NoFd, NoFd>>
                 ELSE /\ Cardinality(CloseCallsOf(fds[1])) = 1
                      /\ Cardinality(CloseCallsOf(fds[2])) = 1
                      /\ ~IsOpen(fdt, fds[1]) /\ ~IsOpen(fdt, fds[2])

\* A configuration call on the second descriptor failed, and so did a close.
C10_Witness ==
    /\ NewPipeFailed
    /\ ret.res = "EINVAL"
    /\ \E i \in 1..Len(trace) :
         trace[i][1] = "fcntl_setfd" /\ trace[i][2] = fds[2] /\ trace[i][3] = "EINVAL"
    /\ \E i \in 1..Len(trace) : trace[i][1] = "close" /\ trace[i][3] = "EIO"


\* C2: after the Sender is dropped the Receiver still reads: every read with a
\* non-empty buffer succeeds, returns the buffered bytes first and zero bytes
\* once they are drained; never an error, never would-block.
C2_ReadAfterDropOriginal ==
    (ret.op = "read" /\ ret.n > 0 /\ life["Sender"] = "dropped")
      => /\ ret.res = "Ok"
         /\ ret.data = <<>> => buf = <<>>
         /\ written = readlog \o buf

\* C2, amended: the same once no duplicate of the Sender's descriptor is open.
C2_ReadAfterDrop ==
    (ret.op = "read" /\ ret.n > 0 /\ life["Sender"] = "dropped" /\ OpenFds("w") = {})
      => /\ ret.res = "Ok"
         /\ ret.data = <<>> => buf = <<>>
         /\ written = readlog \o buf

\* The Sender wrote, was dropped, the Receiver drained the pipe and read again.
C2_Witness ==
    /\ ret.op = "read" /\ ret.n > 0 /\ life["Sender"] = "dropped"
    /\ OpenFds("w") = {}
    /\ ret.res = "Ok" /\ ret.data = <<>>
    /\ written # <<>> /\ readlog = written

PublicFromRawFd(k, fd) == FromRawFd(PublicImpls, k, fd)
\* C6: the raw value into_raw_fd returned can be wrapped again by from_raw_fd
\* of the public type of the same kind.
C6_RoundTrip ==
    ret.op = "into_raw_fd" => ENABLED PublicFromRawFd(ret.kind, ret.n)

Owners(fd) ==
    {k \in Kinds : Alive(k) /\ ep[k] = fd}
      \cup (IF fd \in raw THEN {"caller"} ELSE {})
      \cup (IF pc = "fcntl" /\ (fd = fds[1] \/ fd = fds[2]) THEN {"new_pipe"} ELSE {})
\* C7: every open descriptor has exactly one owner (an endpoint, the caller, or
\* new_pipe while it configures) and no closed descriptor has one; no call is
\* made on a closed descriptor and none is closed twice; drop closes,
\* into_raw_fd hands over without closing, as_raw_fd and the registry calls
\* leave the descriptor open and with its endpoint.
C7_ExclusiveOwnership ==
    /\ \A fd \in FDs : Cardinality(Owners(fd)) = IF fdt[fd].open THEN 1 ELSE 0
    /\ \A k \in Kinds : ~Alive(k) => ep[k] = NoFd
    /\ ~ebadf
    /\ (ret.op = "new_pipe" /\ ret.res = "Ok")
         => /\ ep["Receiver"] # ep["Sender"]
            /\ \A k \in Kinds : Alive(k) /\ fdt[ep[k]].end = End(k)
    /\ ret.op = "drop" => ~IsOpen(fdt, ret.n) /\ life[ret.kind] = "dropped"
    /\ ret.op = "into_raw_fd"
         => /\ IsOpen(fdt, ret.n) /\ fdt[ret.n].end = End(ret.kind)
            /\ ret.n \in raw /\ life[ret.kind] = "raw"
    /\ ret.op \in {"as_raw_fd", "register", "reregister", "deregister"}
         => Alive(ret.kind) /\ ep[ret.kind] = ret.n /\ IsOpen(fdt, ret.n)

\* One endpoint was dropped, the other handed to the caller.
C7_Witness ==
    /\ ret.op = "into_raw_fd" /\ ret.kind = "Sender"
    /\ life["Receiver"] = "dropped"
    /\ raw = {ret.n}

C8_DropStep ==
    \A k \in Kinds :
      (life[k] = "alive" /\ life'[k] = "dropped") =>
        LET e == End(k)
            dups == OpenFds(e) \ {ep[k]}
        IN IF dups = {}
           THEN reg'[e] = NoReg /\ OpenFdsOf(fdt', e) = {}
           ELSE reg'[e] = reg[e] /\ OpenFdsOf(fdt', e) = dups
C8_NoEventAfterDrop ==
    ret.op = "poll" =>
      \A k \in Kinds :
        (life[k] = "dropped" /\ OpenFds(End(k)) = {})
          => \A ev \in ret.events : ev.token # Token(k)
\* C8: dropping a registered endpoint removes its registration exactly when no
\* duplicate of its descriptor is open; then no poll reports its token again.
\* With a duplicate open the pipe end stays open and the registration stays.
C8_DeregisterOnDrop == [][C8_DropStep]_vars /\ []C8_NoEventAfterDrop

\* The second documentation example: both registered, the Sender dropped, and
\* the poll reports the Receiver's token only.
C8_Witness ==
    /\ ret.op = "poll" /\ life["Sender"] = "dropped" /\ OpenFds("w") = {}
    /\ reg["r"] # NoReg /\ reg["w"] = NoReg
    /\ ret.events # {}
    /\ \A ev \in ret.events : ev.token = PIPE_RECV

PeerGoneEvent(ev, k) ==
    /\ ev.token = Token(k)
    /\ ev.error \/ (IF k = "Receiver" THEN ev.read_closed ELSE ev.write_closed)
Wanted(k) == IF k = "Receiver" THEN "readable" ELSE "writable"
Other(k) == IF k = "Receiver" THEN "Sender" ELSE "Receiver"
C9_NoFalseClose ==
    \A k \in Kinds : \A ev \in ret.events : PeerGoneEvent(ev, k) => ~Alive(Other(k))
====
